---- MODULE Spec2Model ----
(***************************************************************************)
(* A model of the maze package: cells and their link sets (the struct     *)
(* Cell and the interface-based RectangleCell / CellBase), the grid that   *)
(* owns and wires them, the BinaryTree and Sidewinder generators and the   *)
(* text renderer.                                                          *)
(*                                                                         *)
(* Pointers are heap addresses 1, 2, ...; the nil pointer is Nil.  The     *)
(* heap, cells, maps an address to the value stored there.  A Go map used  *)
(* as a set (map[K]bool whose only stored value is true) is the set of     *)
(* its keys.  An interface value is the pair <<dynamic type, address>>.    *)
(***************************************************************************)
EXTENDS Integers, Sequences, FiniteSets, TLC

\* ------------------------------------------------------------------ bounds
\* Grids have up to MaxRows x MaxColumns cells; a generator runs on grids of up to
\* MaxGenerateCells cells, cells are linked at will on grids of up to MaxLinkCells
\* cells, and adjacent cells are linked and rendered on grids of up to
\* MaxRenderCells cells, with sizes up to MaxH and MaxV.  A range over the channel
\* of AllCells or AllRows runs on grids of up to MaxRangeCells cells, at most
\* MaxRanges times after the grid is built.
MaxRows == 3
MaxColumns == 3
MaxGenerateCells == 12
MaxLinkCells == 3
MaxRenderCells == 6
MaxH == 3
MaxV == 2
MaxRangeCells == 4
MaxRanges == 2

\* The nil pointer.
Nil == 0
\* The result of an indexing that is out of range (a runtime panic).
Panic == -1

VARIABLES
    pc,         \* where the program is: "start", "ready", "fatal", ...
    kind,       \* the type of the grid built: "Grid" or "RectangleGrid"
    g,          \* the grid value: [Rows, Columns, grid]
    cells,      \* the heap: address -> Cell or RectangleCell value
    last,       \* the last call made, with its arguments
    it,         \* the generator's loop position: [row, col] (indices already consumed)
    run,        \* Sidewinder's run slice
    fresh,      \* the cells Sidewinder appended to run since the previous close in this row
    runs,       \* the runs Sidewinder closed in this row: [cells, fresh, member] each
    decisions,  \* the number of loop bodies a generator has executed
    output,     \* the string toString returned: a sequence of glyphs and newlines
    ch,         \* the channel of the AllCells / AllRows call in flight, with its
                \* producer goroutine and the loop that ranges over it
    yields      \* what each finished range over AllCells / AllRows received

vars == <<pc, kind, g, cells, last, it, run, fresh, runs, decisions, output, ch,
         yields>>

Dims == -1 .. MaxRows
DimsC == -1 .. MaxColumns

\* ------------------------------------------------------- struct Cell (cell.go)

\* NewCell: a cell with its coordinates, nil neighbours and an empty link map.
NewCell(row, column) ==
    [Row |-> row, Column |-> column,
     North |-> Nil, South |-> Nil, East |-> Nil, West |-> Nil,
     links |-> {}]

\* c.links[neighbor] = true
LinkOneWay(heap, c, neighbor) ==
    [heap EXCEPT ![c].links = @ \cup {neighbor}]

LinkForgetsReverse(heap, c, neighbor) ==
    LinkOneWay(heap, c, neighbor)

\* c.LinkOneWay(neighbor); neighbor.LinkOneWay(c)
Link(heap, c, neighbor) ==
    LinkOneWay(LinkOneWay(heap, c, neighbor), neighbor, c)

\* delete(c.links, neighbor)
UnlinkOneWay(heap, c, neighbor) ==
    [heap EXCEPT ![c].links = @ \ {neighbor}]

\* c.UnlinkOneWay(neighbor); neighbor.UnlinkOneWay(c)
Unlink(heap, c, neighbor) ==
    UnlinkOneWay(UnlinkOneWay(heap, c, neighbor), neighbor, c)

\* false for the nil neighbour, else whether the key is in the map (with value true)
Linked(heap, c, neighbor) ==
    IF neighbor = Nil THEN FALSE ELSE neighbor \in heap[c].links

\* ------------------------------- interface Cell, CellBase (cell.go, second half)

\* The interface value holding a *RectangleCell / a *CellBase.  The CellBase of
\* the RectangleCell at address a is its field base: it has the address of its
\* owner in this model, and a different dynamic type.
AsRectangleCell(a) == <<"*RectangleCell", a>>
AsCellBase(a) == <<"*CellBase", a>>
\* The interface value whose LinkOneWay / UnlinkOneWay is called: both dynamic types
\* end in the CellBase at that address.
BaseOf(iface) == iface[2]

newCellBase(row, column) ==
    [row |-> row, column |-> column, links |-> {}]

\* c.links[neighbor] = true, c the CellBase at address c, neighbor an interface value
CellBase_LinkOneWay(heap, c, neighbor) ==
    [heap EXCEPT ![c].base.links = @ \cup {neighbor}]

\* c.LinkOneWay(neighbor); neighbor.LinkOneWay(c): the receiver c is a *CellBase,
\* so the key stored in the neighbour's map is the interface value of a *CellBase.
CellBase_Link(heap, c, neighbor) ==
    CellBase_LinkOneWay(CellBase_LinkOneWay(heap, c, neighbor),
                        BaseOf(neighbor), AsCellBase(c))

CellBase_UnlinkOneWay(heap, c, neighbor) ==
    [heap EXCEPT ![c].base.links = @ \ {neighbor}]

CellBase_Unlink(heap, c, neighbor) ==
    CellBase_UnlinkOneWay(CellBase_UnlinkOneWay(heap, c, neighbor),
                          BaseOf(neighbor), AsCellBase(c))

\* neighbor == nil is true of the nil interface only; a nil *RectangleCell in an
\* interface is not nil and is simply not a key of the map.
CellBase_Linked(heap, c, neighbor) ==
    neighbor \in heap[c].base.links

\* ------------------------------------------------ RectangleCell (rectangle cell)

NewRectangleCell(row, column) ==
    [North |-> Nil, South |-> Nil, East |-> Nil, West |-> Nil,
     base |-> newCellBase(row, column)]

RectangleCell_Row(heap, c) == heap[c].base.row
RectangleCell_Column(heap, c) == heap[c].base.column

\* Each delegates to c.base; the argument is converted to the interface Cell at the
\* call, so a *RectangleCell argument arrives as AsRectangleCell(n).
RectangleCell_LinkOneWay(heap, c, neighbor) == CellBase_LinkOneWay(heap, c, neighbor)
RectangleCell_Link(heap, c, neighbor) == CellBase_Link(heap, c, neighbor)
RectangleCell_Unlink(heap, c, neighbor) == CellBase_Unlink(heap, c, neighbor)
RectangleCell_UnlinkOneWay(heap, c, neighbor) == CellBase_UnlinkOneWay(heap, c, neighbor)
RectangleCell_Linked(heap, c, neighbor) == CellBase_Linked(heap, c, neighbor)

\* ---------------------------------------------------------- slices (Go runtime)

\* A slice is a function on 0 .. len-1.
SliceLen(s) == Cardinality(DOMAIN s)
\* The elements of a slice in index order, as `range` yields them.
SliceSeq(s) == [i \in 1 .. SliceLen(s) |-> s[i - 1]]
Range(q) == {q[i] : i \in DOMAIN q}
\* grid[row][column]; indexing out of range panics.
Index2(grid, row, column) ==
    IF row \in DOMAIN grid /\ column \in DOMAIN grid[row]
        THEN grid[row][column]
        ELSE Panic

\* ------------------------------------------------------- struct Grid (grid.go)

AtOffByOne(G, row, column) ==
    IF row < 0 \/ column < 0 \/ row > G.Rows \/ column > G.Columns
        THEN Nil
        ELSE Index2(G.grid, row, column)

\* At: nil outside 0 <= row < Rows, 0 <= column < Columns, else grid[row][column]
At(G, row, column) ==
    IF row < 0 \/ column < 0 \/ row >= G.Rows \/ column >= G.Columns
        THEN Nil
        ELSE Index2(G.grid, row, column)

\* prepareGrid allocates one cell per (r, c), rows first; the k-th allocation
\* (k = 1, 2, ...) gets address k.  It yields the filled grid and the heap.
prepareGrid(G) ==
    [g    |-> [G EXCEPT !.grid =
                  [r \in 0 .. G.Rows - 1 |->
                      [c \in 0 .. G.Columns - 1 |-> r * G.Columns + c + 1]]],
     heap |-> [a \in 1 .. G.Rows * G.Columns |->
                  NewCell((a - 1) \div G.Columns, (a - 1) % G.Columns)]]

\* AllRows: the rows of g.grid in index order (what the channel delivers).
AllRows(G) == SliceSeq(G.grid)

RECURSIVE AllCellsFrom(_, _)
AllCellsFrom(rows, i) ==
    IF i > Len(rows) THEN <<>>
    ELSE SliceSeq(rows[i]) \o AllCellsFrom(rows, i + 1)

\* AllCells: for each row in order, each cell of the row in order.
AllCells(G) == AllCellsFrom(SliceSeq(G.grid), 1)

configureCellsSwapsEastWest(G, heap) ==
    [a \in DOMAIN heap |->
        IF a \in Range(AllCells(G))
            THEN [heap[a] EXCEPT
                    !.North = At(G, heap[a].Row - 1, heap[a].Column),
                    !.South = At(G, heap[a].Row + 1, heap[a].Column),
                    !.West  = At(G, heap[a].Row, heap[a].Column + 1),
                    !.East  = At(G, heap[a].Row, heap[a].Column + 1)]
            ELSE heap[a]]

\* configureCells: every cell AllCells delivers gets its four neighbours from At.
configureCells(G, heap) ==
    [a \in DOMAIN heap |->
        IF a \in Range(AllCells(G))
            THEN [heap[a] EXCEPT
                    !.North = At(G, heap[a].Row - 1, heap[a].Column),
                    !.South = At(G, heap[a].Row + 1, heap[a].Column),
                    !.West  = At(G, heap[a].Row, heap[a].Column - 1),
                    !.East  = At(G, heap[a].Row, heap[a].Column + 1)]
            ELSE heap[a]]

\* NewGrid: fatal on a negative dimension, else the prepared and configured grid.
NewGrid(rows, columns) ==
    IF rows < 0 \/ columns < 0
        THEN [fatal |-> TRUE,
              g |-> [Rows |-> 0, Columns |-> 0, grid |-> <<>>], heap |-> <<>>]
        ELSE LET p == prepareGrid([Rows |-> rows, Columns |-> columns, grid |-> <<>>])
             IN  [fatal |-> FALSE, g |-> p.g, heap |-> configureCells(p.g, p.heap)]

\* ------------------------------------------- RectangleGrid (README.md, 37-132)

RectangleGrid_At(G, row, column) ==
    IF row < 0 \/ column < 0 \/ row >= G.rows \/ column >= G.columns
        THEN Nil
        ELSE Index2(G.grid, row, column)

RectangleGrid_prepareGrid(G) ==
    [g    |-> [G EXCEPT !.grid =
                  [r \in 0 .. G.rows - 1 |->
                      [c \in 0 .. G.columns - 1 |-> r * G.columns + c + 1]]],
     heap |-> [a \in 1 .. G.rows * G.columns |->
                  NewRectangleCell((a - 1) \div G.columns, (a - 1) % G.columns)]]

RectangleGrid_AllRows(G) == SliceSeq(G.grid)

RectangleGrid_AllCells(G) == AllCellsFrom(SliceSeq(G.grid), 1)

RectangleGrid_configureCells(G, heap) ==
    [a \in DOMAIN heap |->
        IF a \in Range(RectangleGrid_AllCells(G))
            THEN LET row == RectangleCell_Row(heap, a)
                     column == RectangleCell_Column(heap, a)
                 IN  [heap[a] EXCEPT
                        !.North = RectangleGrid_At(G, row - 1, column),
                        !.South = RectangleGrid_At(G, row + 1, column),
                        !.West  = RectangleGrid_At(G, row, column - 1),
                        !.East  = RectangleGrid_At(G, row, column + 1)]
            ELSE heap[a]]

RectangleGrid_NewGrid(rows, columns) ==
    IF rows < 0 \/ columns < 0
        THEN [fatal |-> TRUE,
              g |-> [rows |-> 0, columns |-> 0, grid |-> <<>>], heap |-> <<>>]
        ELSE LET p == RectangleGrid_prepareGrid(
                          [rows |-> rows, columns |-> columns, grid |-> <<>>])
             IN  [fatal |-> FALSE, g |-> p.g,
                  heap |-> RectangleGrid_configureCells(p.g, p.heap)]

\* ------------------------------------------------------------------- state

\* No AllCells / AllRows call is in flight.
NoChan == [fn |-> "none"]

Init ==
    /\ pc = "start"
    /\ kind = "none"
    /\ g = [Rows |-> 0, Columns |-> 0, grid |-> <<>>]
    /\ cells = <<>>
    /\ last = <<"none">>
    /\ it = [row |-> 0, col |-> 0]
    /\ run = <<>>
    /\ fresh = <<>>
    /\ runs = <<>>
    /\ decisions = 0
    /\ output = <<>>
    /\ ch = NoChan
    /\ yields = <<>>

\* The grid's dimensions and cell lookup, whichever type the grid has.
RowsOf == IF kind = "RectangleGrid" THEN g.rows ELSE g.Rows
ColumnsOf == IF kind = "RectangleGrid" THEN g.columns ELSE g.Columns
CellAt(row, column) ==
    IF kind = "RectangleGrid" THEN RectangleGrid_At(g, row, column)
    ELSE At(g, row, column)

\* NewGrid(rows, columns) is called (struct Grid).
NewGridCall(rows, columns) ==
    /\ pc = "start"
    /\ LET n == NewGrid(rows, columns)
       IN  IF n.fatal
             THEN /\ pc' = "fatal"
                  /\ UNCHANGED <<kind, g, cells>>
             ELSE /\ pc' = "ready"
                  /\ kind' = "Grid"
                  /\ g' = n.g
                  /\ cells' = n.heap
    /\ last' = <<"NewGrid", rows, columns>>
    /\ UNCHANGED <<it, run, fresh, runs, decisions, output, ch, yields>>

\* NewGrid(rows, columns) is called (RectangleGrid).
RectangleGrid_NewGridCall(rows, columns) ==
    /\ pc = "start"
    /\ LET n == RectangleGrid_NewGrid(rows, columns)
       IN  IF n.fatal
             THEN /\ pc' = "fatal"
                  /\ UNCHANGED <<kind, g, cells>>
             ELSE /\ pc' = "ready"
                  /\ kind' = "RectangleGrid"
                  /\ g' = n.g
                  /\ cells' = n.heap
    /\ last' = <<"NewGrid", rows, columns>>
    /\ UNCHANGED <<it, run, fresh, runs, decisions, output, ch, yields>>

\* a.Link(b) / a.Unlink(b) on two cells of the struct variant.
CellLink(a, b) ==
    /\ pc = "ready" /\ kind = "Grid"
    /\ cells' = Link(cells, a, b)
    /\ last' = <<"Link", a, b>>
    /\ UNCHANGED <<pc, kind, g, it, run, fresh, runs, decisions, output, ch, yields>>

CellUnlink(a, b) ==
    /\ pc = "ready" /\ kind = "Grid"
    /\ cells' = Unlink(cells, a, b)
    /\ last' = <<"Unlink", a, b>>
    /\ UNCHANGED <<pc, kind, g, it, run, fresh, runs, decisions, output, ch, yields>>

\* a.Link(b) / a.Unlink(b) on two *RectangleCell values.
RectangleCellLink(a, b) ==
    /\ pc = "ready" /\ kind = "RectangleGrid"
    /\ cells' = RectangleCell_Link(cells, a, AsRectangleCell(b))
    /\ last' = <<"Link", a, b>>
    /\ UNCHANGED <<pc, kind, g, it, run, fresh, runs, decisions, output, ch, yields>>

RectangleCellUnlink(a, b) ==
    /\ pc = "ready" /\ kind = "RectangleGrid"
    /\ cells' = RectangleCell_Unlink(cells, a, AsRectangleCell(b))
    /\ last' = <<"Unlink", a, b>>
    /\ UNCHANGED <<pc, kind, g, it, run, fresh, runs, decisions, output, ch, yields>>

\* ------------------------------------- cells linked and unlinked at will

NewSmallGrid ==
    \E rows \in Dims, columns \in DimsC :
        rows * columns <= MaxLinkCells /\ NewGridCall(rows, columns)
LinkAny ==
    \E a \in DOMAIN cells, b \in DOMAIN cells :
        Len(cells) <= MaxLinkCells /\ CellLink(a, b)
UnlinkAny ==
    \E a \in DOMAIN cells, b \in DOMAIN cells :
        Len(cells) <= MaxLinkCells /\ CellUnlink(a, b)

NextCell == NewSmallGrid \/ LinkAny \/ UnlinkAny
SpecCell == Init /\ [][NextCell]_vars

NewSmallRectangleGrid ==
    \E rows \in Dims, columns \in DimsC :
        rows * columns <= MaxLinkCells /\ RectangleGrid_NewGridCall(rows, columns)
RectangleLinkAny ==
    \E a \in DOMAIN cells, b \in DOMAIN cells :
        Len(cells) <= MaxLinkCells /\ RectangleCellLink(a, b)
RectangleUnlinkAny ==
    \E a \in DOMAIN cells, b \in DOMAIN cells :
        Len(cells) <= MaxLinkCells /\ RectangleCellUnlink(a, b)

NextRectangleCell == NewSmallRectangleGrid \/ RectangleLinkAny \/ RectangleUnlinkAny
SpecRectangleCell == Init /\ [][NextRectangleCell]_vars

\* C1: for all struct cells A and B, right after A.Link(B) both A.Linked(B) and
\* B.Linked(A) are true, and right after A.Unlink(B) both are false, whatever
\* Link and Unlink calls came before.
C1_LinkUnlinkBothWays ==
    /\ last[1] = "Link" =>
          Linked(cells, last[2], last[3]) /\ Linked(cells, last[3], last[2])
    /\ last[1] = "Unlink" =>
          ~Linked(cells, last[2], last[3]) /\ ~Linked(cells, last[3], last[2])

\* A.Unlink(B) has just removed a link that an earlier B.Link(A) made, while
\* another link of A is still in place.
C1_Witness ==
    /\ kind = "Grid" /\ last[1] = "Unlink" /\ last[2] # last[3]
    /\ \E c \in DOMAIN cells :
          c \notin {last[2], last[3]} /\ Linked(cells, last[2], c)
                                       /\ Linked(cells, c, last[2])

\* C2: on RectangleCell values linking is symmetric: a.Linked(b) = b.Linked(a) for
\* all a and b after any Link and Unlink calls; right after a.Link(b), b.Linked(a)
\* is true; right after a.Unlink(b) both are false.
C2_RectangleLinkSymmetric ==
    /\ \A a \in DOMAIN cells, b \in DOMAIN cells :
          kind = "RectangleGrid" =>
             (RectangleCell_Linked(cells, a, AsRectangleCell(b))
                <=> RectangleCell_Linked(cells, b, AsRectangleCell(a)))
    /\ kind = "RectangleGrid" /\ last[1] = "Link" =>
          /\ RectangleCell_Linked(cells, last[2], AsRectangleCell(last[3]))
          /\ RectangleCell_Linked(cells, last[3], AsRectangleCell(last[2]))
    /\ kind = "RectangleGrid" /\ last[1] = "Unlink" =>
          /\ ~RectangleCell_Linked(cells, last[2], AsRectangleCell(last[3]))
          /\ ~RectangleCell_Linked(cells, last[3], AsRectangleCell(last[2]))

\* ------------------------------------------------ BinaryTree (binary tree file)

BinaryTreeNeighborsEastOnly(heap, cell) ==
    IF heap[cell].East # Nil THEN <<heap[cell].East>> ELSE <<>>

BinaryTreeNeighborsNorthOnly(heap, cell) ==
    IF heap[cell].North # Nil THEN <<heap[cell].North>> ELSE <<>>

\* The slice neighbors of one loop body: North if present, then East if present.
BinaryTreeNeighbors(heap, cell) ==
    (IF heap[cell].North # Nil THEN <<heap[cell].North>> ELSE <<>>)
        \o (IF heap[cell].East # Nil THEN <<heap[cell].East>> ELSE <<>>)

\* BinaryTree(g) is entered on a freshly built grid: the range over AllCells starts.
BinaryTreeCall ==
    /\ pc = "ready" /\ kind = "Grid" /\ last[1] = "NewGrid"
    /\ pc' = "BinaryTree"
    /\ it' = [row |-> 0, col |-> 0]
    /\ decisions' = 0
    /\ last' = <<"BinaryTree">>
    /\ UNCHANGED <<kind, g, cells, run, fresh, runs, output, ch, yields>>

\* One loop body: the next cell of AllCells is linked to neighbors[rand.Intn(len)],
\* or left alone when neighbors is empty.  it.col counts the cells received.
BinaryTreeCell ==
    /\ pc = "BinaryTree"
    /\ it.col < Len(AllCells(g))
    /\ LET cell == AllCells(g)[it.col + 1]
           neighbors == BinaryTreeNeighbors(cells, cell)
       IN  IF Len(neighbors) > 0
             THEN \E i \in 1 .. Len(neighbors) :
                      /\ cells' = Link(cells, cell, neighbors[i])
                      /\ last' = <<"BinaryTreeCell", cell, neighbors[i]>>
             ELSE /\ cells' = cells
                  /\ last' = <<"BinaryTreeCell", cell, Nil>>
    /\ it' = [it EXCEPT !.col = @ + 1]
    /\ decisions' = decisions + 1
    /\ UNCHANGED <<pc, kind, g, run, fresh, runs, output, ch, yields>>

\* The channel is closed: the loop ends and BinaryTree returns.
BinaryTreeReturn ==
    /\ pc = "BinaryTree"
    /\ it.col >= Len(AllCells(g))
    /\ pc' = "done"
    /\ last' = <<"BinaryTreeReturn">>
    /\ UNCHANGED <<kind, g, cells, it, run, fresh, runs, decisions, output, ch, yields>>

\* ------------------------------------------------------ Sidewinder (sidewinder.go)

\* Sidewinder(g) is entered on a freshly built grid: the range over AllRows starts.
SidewinderCall ==
    /\ pc = "ready" /\ kind = "RectangleGrid" /\ last[1] = "NewGrid"
    /\ pc' = "Sidewinder"
    /\ it' = [row |-> 0, col |-> 0]
    /\ decisions' = 0
    /\ run' = <<>>
    /\ fresh' = <<>>
    /\ runs' = <<>>
    /\ last' = <<"Sidewinder">>
    /\ UNCHANGED <<kind, g, cells, output, ch, yields>>

\* The outer loop receives the next row: run := []*RectangleCell{}.
\* it.row counts the rows received.
SidewinderRow ==
    /\ pc = "Sidewinder"
    /\ it.row < Len(RectangleGrid_AllRows(g))
    /\ pc' = "SidewinderRow"
    /\ it' = [row |-> it.row + 1, col |-> 0]
    /\ run' = <<>>
    /\ fresh' = <<>>
    /\ runs' = <<>>
    /\ last' = <<"SidewinderRow", it.row>>
    /\ UNCHANGED <<kind, g, cells, decisions, output, ch, yields>>

\* The slice run after a close: the code assigns nothing to it.
SidewinderRunAfterClose(r) == r

\* The cell a non-closing body links the current cell to.
SidewinderEastTarget(heap, cell) == heap[cell].East

SidewinderNorthTargetSouth(heap, member) == heap[member].South

\* The cell a closing body links the chosen member to (nil: no link).
SidewinderNorthTarget(heap, member) == heap[member].North

\* One body of the inner loop, on the next cell of the current row.  The coin
\* rand.Intn(2) is drawn only when the cell has an East and a North neighbour.
SidewinderCell ==
    /\ pc = "SidewinderRow"
    /\ LET row == RectangleGrid_AllRows(g)[it.row]
       IN  /\ it.col < SliceLen(row)
           /\ LET cell == row[it.col]
                  run1 == Append(run, cell)
                  atEasternBoundary == cells[cell].East = Nil
                  atNorthernBoundary == cells[cell].North = Nil
              IN  \E coin \in IF atEasternBoundary \/ atNorthernBoundary
                                 THEN {1} ELSE {0, 1} :
                    LET shouldCloseOut ==
                            atEasternBoundary \/ (~atNorthernBoundary /\ coin = 0)
                    IN  IF shouldCloseOut
                          THEN \E i \in 1 .. Len(run1) :
                                 LET member == run1[i]
                                     north == SidewinderNorthTarget(cells, member)
                                 IN  /\ cells' =
                                          IF north # Nil
                                            THEN RectangleCell_Link(cells, member,
                                                     AsRectangleCell(north))
                                            ELSE cells
                                     /\ run' = SidewinderRunAfterClose(run1)
                                     /\ runs' = Append(runs,
                                            [cells |-> run1,
                                             fresh |-> Append(fresh, cell),
                                             member |-> member])
                                     /\ fresh' = <<>>
                                     /\ last' = <<"close", cell, member>>
                          ELSE /\ cells' = RectangleCell_Link(cells, cell,
                                     AsRectangleCell(SidewinderEastTarget(cells, cell)))
                               /\ run' = run1
                               /\ fresh' = Append(fresh, cell)
                               /\ runs' = runs
                               /\ last' = <<"east", cell, cells[cell].East>>
    /\ it' = [it EXCEPT !.col = @ + 1]
    /\ decisions' = decisions + 1
    /\ UNCHANGED <<pc, kind, g, output, ch, yields>>

\* The inner loop has consumed the row: back to the outer loop.
SidewinderRowEnd ==
    /\ pc = "SidewinderRow"
    /\ it.col >= SliceLen(RectangleGrid_AllRows(g)[it.row])
    /\ pc' = "Sidewinder"
    /\ last' = <<"SidewinderRowEnd", it.row>>
    /\ UNCHANGED <<kind, g, cells, it, run, fresh, runs, decisions, output, ch, yields>>

\* The channel is closed: the outer loop ends and Sidewinder returns.
SidewinderReturn ==
    /\ pc = "Sidewinder"
    /\ it.row >= Len(RectangleGrid_AllRows(g))
    /\ pc' = "done"
    /\ last' = <<"SidewinderReturn">>
    /\ UNCHANGED <<kind, g, cells, it, run, fresh, runs, decisions, output, ch, yields>>

\* ------------------------------------------- a grid is built and a maze generated

NewGridAny ==
    \E rows \in Dims, columns \in DimsC :
        rows * columns <= MaxGenerateCells /\ NewGridCall(rows, columns)
NewRectangleGridAny ==
    \E rows \in Dims, columns \in DimsC :
        rows * columns <= MaxGenerateCells /\ RectangleGrid_NewGridCall(rows, columns)

NextGenerate ==
    \/ NewGridAny
    \/ BinaryTreeCall
    \/ BinaryTreeCell
    \/ BinaryTreeReturn
    \/ NewRectangleGridAny
    \/ SidewinderCall
    \/ SidewinderRow
    \/ SidewinderCell
    \/ SidewinderRowEnd
    \/ SidewinderReturn
SpecGenerate == Init /\ [][NextGenerate]_vars

\* ----------------------------------------- the renderer (README.md, 429-624)

\* The box drawing glyphs, by the names of their constants.
horizontal == "horizontal"
vertical == "vertical"
cornerDownRight == "cornerDownRight"
cornerDownLeft == "cornerDownLeft"
cornerUpRight == "cornerUpRight"
cornerUpLeft == "cornerUpLeft"
verticalRight == "verticalRight"
verticalLeft == "verticalLeft"
horizontalDown == "horizontalDown"
horizontalUp == "horizontalUp"
intersection == "intersection"
space == " "
newline == "\n"

\* cornerGlyph: the table glyphs indexed by up | down<<1 | left<<2 | right<<3.
cornerGlyph(up, left, down, right) ==
    LET idx == (IF up THEN 1 ELSE 0) + (IF down THEN 2 ELSE 0)
                  + (IF left THEN 4 ELSE 0) + (IF right THEN 8 ELSE 0)
        glyphs == <<space, vertical, vertical, vertical,
                    horizontal, cornerUpLeft, cornerDownLeft, verticalLeft,
                    horizontal, cornerUpRight, cornerDownRight, verticalRight,
                    horizontal, horizontalUp, horizontalDown, intersection>>
    IN  glyphs[idx + 1]

\* upperLeftCornerGlyph: the glyph at the lattice point above and left of (row, column).
upperLeftCornerGlyph(G, heap, row, column) ==
    LET ul == At(G, row - 1, column - 1)
        ur == At(G, row - 1, column)
        ll == At(G, row, column - 1)
        lr == At(G, row, column)
        up    == IF ul # Nil THEN (ur = Nil) \/ ~Linked(heap, ul, ur) ELSE ur # Nil
        left  == IF ul # Nil THEN (ll = Nil) \/ ~Linked(heap, ul, ll) ELSE ll # Nil
        down  == IF lr # Nil THEN (ll = Nil) \/ ~Linked(heap, lr, ll) ELSE ll # Nil
        right == IF lr # Nil THEN (ur = Nil) \/ ~Linked(heap, lr, ur) ELSE ur # Nil
    IN  cornerGlyph(up, left, down, right)

pointsDown(r) ==
    r \in {vertical, cornerDownRight, cornerDownLeft, verticalRight, verticalLeft,
           intersection}

pointsRightOmitsHorizontalDown(r) ==
    r \in {horizontal, cornerDownRight, cornerUpRight, verticalRight,
           horizontalUp, intersection}

pointsRight(r) ==
    r \in {horizontal, cornerDownRight, cornerUpRight, verticalRight, horizontalDown,
           horizontalUp, intersection}

\* n copies of the sequence q, one after the other.
RECURSIVE Repeat(_, _)
Repeat(q, n) == IF n <= 0 THEN <<>> ELSE q \o Repeat(q, n - 1)

\* The inner loop of toString from column c on: what it appends to topEdge and area.
RECURSIVE toStringColumns(_, _, _, _, _)
toStringColumns(G, heap, r, c, horizontalSize) ==
    IF c > G.Columns THEN [topEdge |-> <<>>, area |-> <<>>]
    ELSE LET cell == At(G, r, c)
             ul == upperLeftCornerGlyph(G, heap, r, c)
             horizontalLine == Repeat(<<horizontal>>, horizontalSize)
             horizontalSpace == Repeat(<<space>>, horizontalSize)
             edge == IF pointsRight(ul)
                        /\ (cell = Nil \/ ~Linked(heap, cell, heap[cell].North))
                       THEN <<ul>> \o horizontalLine
                       ELSE <<ul>> \o horizontalSpace
             left == IF pointsDown(ul)
                        /\ (cell = Nil \/ ~Linked(heap, cell, heap[cell].West))
                       THEN <<vertical>>
                       ELSE <<space>>
             rest == toStringColumns(G, heap, r, c + 1, horizontalSize)
         IN  [topEdge |-> edge \o rest.topEdge,
              area    |-> left \o horizontalSpace \o rest.area]

\* The outer loop of toString from row r on: topEdge and a newline, then, above the
\* bottom edge, verticalSize copies of area and a newline.
RECURSIVE toStringRows(_, _, _, _, _)
toStringRows(G, heap, r, horizontalSize, verticalSize) ==
    IF r > G.Rows THEN <<>>
    ELSE LET line == toStringColumns(G, heap, r, 0, horizontalSize)
         IN  line.topEdge \o <<newline>>
                \o (IF r < G.Rows
                      THEN Repeat(line.area \o <<newline>>, verticalSize)
                      ELSE <<>>)
                \o toStringRows(G, heap, r + 1, horizontalSize, verticalSize)

\* toString: fatal for a size below 1, else the rendered text.
toString(G, heap, horizontalSize, verticalSize) ==
    IF horizontalSize < 1 \/ verticalSize < 1
        THEN [fatal |-> TRUE, output |-> <<>>]
        ELSE [fatal |-> FALSE,
              output |-> toStringRows(G, heap, 0, horizontalSize, verticalSize)]

\* g.toString(horizontalSize, verticalSize) is called.
ToStringCall(horizontalSize, verticalSize) ==
    /\ pc = "ready" /\ kind = "Grid"
    /\ LET t == toString(g, cells, horizontalSize, verticalSize)
       IN  IF t.fatal
             THEN pc' = "fatal" /\ output' = output
             ELSE pc' = "rendered" /\ output' = t.output
    /\ last' = <<"toString", horizontalSize, verticalSize>>
    /\ UNCHANGED <<kind, g, cells, it, run, fresh, runs, decisions, ch, yields>>

\* --------------------- a grid is built, adjacent cells are linked, it is rendered

Adjacent(a, b) ==
    b \in {cells[a].North, cells[a].South, cells[a].East, cells[a].West}

NewRenderGrid ==
    \E rows \in Dims, columns \in DimsC :
        rows * columns <= MaxRenderCells /\ NewGridCall(rows, columns)
LinkAdjacent ==
    \E a \in DOMAIN cells, b \in DOMAIN cells :
        Len(cells) <= MaxRenderCells /\ Adjacent(a, b) /\ CellLink(a, b)
UnlinkAdjacent ==
    \E a \in DOMAIN cells, b \in DOMAIN cells :
        Len(cells) <= MaxRenderCells /\ Adjacent(a, b) /\ CellUnlink(a, b)
ToStringAny ==
    \E horizontalSize \in 0 .. MaxH, verticalSize \in 0 .. MaxV :
        ToStringCall(horizontalSize, verticalSize)

NextRender == NewRenderGrid \/ LinkAdjacent \/ UnlinkAdjacent \/ ToStringAny
SpecRender == Init /\ [][NextRender]_vars

\* ------------------------- AllCells and AllRows: the goroutine and the channel
\* ch holds the unbuffered channel c of the call in flight: the producer goroutine
\* (ppc: "range" before it fetches the next element, "send" while it is blocked in
\* c <- val, "ended" after close(c) and its return; r, c: the indices of the
\* element to fetch), the flag closed, and the loop ranging over the channel (cpc:
\* "recv" while it waits in the receive, "body" in the loop body, "done" after the
\* loop; got: the element received last; recv: all elements received so far).

\* c := make(chan ...); go func() {...}(); return c
MakeChan(fn) ==
    [fn |-> fn, ppc |-> "range", r |-> 0, c |-> 0, val |-> Nil, closed |-> FALSE,
     cpc |-> "recv", got |-> Nil, recv |-> <<>>]

AllCellsGoroutineClosesAfterRow(G, p) ==
    IF p.r < SliceLen(G.grid)
        THEN IF p.c < SliceLen(G.grid[p.r])
               THEN [p EXCEPT !.ppc = "send", !.val = G.grid[p.r][p.c]]
               ELSE [p EXCEPT !.ppc = "ended", !.closed = TRUE]
        ELSE [p EXCEPT !.ppc = "ended", !.closed = TRUE]

\* One step of the goroutine of AllCells up to its next blocking point: the next
\* cell of the current row goes into the send; at the end of a row the next row
\* starts; after the last row the channel is closed and the goroutine returns.
AllCellsGoroutine(G, p) ==
    IF p.r < SliceLen(G.grid)
        THEN IF p.c < SliceLen(G.grid[p.r])
               THEN [p EXCEPT !.ppc = "send", !.val = G.grid[p.r][p.c]]
               ELSE [p EXCEPT !.r = @ + 1, !.c = 0]
        ELSE [p EXCEPT !.ppc = "ended", !.closed = TRUE]

\* One step of the goroutine of AllRows: the next row goes into the send; after
\* the last row the channel is closed and the goroutine returns.
AllRowsGoroutine(G, p) ==
    IF p.r < SliceLen(G.grid)
        THEN [p EXCEPT !.ppc = "send", !.val = G.grid[p.r]]
        ELSE [p EXCEPT !.ppc = "ended", !.closed = TRUE]

\* The goroutine of AllCells runs until it blocks or returns.
AllCellsProducer ==
    /\ ch.fn = "AllCells" /\ ch.ppc = "range"
    /\ ch' = AllCellsGoroutine(g, ch)
    /\ UNCHANGED <<pc, kind, g, cells, last, it, run, fresh, runs, decisions, output,
                   yields>>

\* The goroutine of AllRows runs until it blocks or returns.
AllRowsProducer ==
    /\ ch.fn = "AllRows" /\ ch.ppc = "range"
    /\ ch' = AllRowsGoroutine(g, ch)
    /\ UNCHANGED <<pc, kind, g, cells, last, it, run, fresh, runs, decisions, output,
                   yields>>

\* The send c <- val meets the receive of `range c`: the channel has no buffer, so
\* both complete in one step.  The producer goes on to the next index, the
\* consumer enters its loop body.
ChanHandoff ==
    /\ ch.fn # "none" /\ ch.ppc = "send" /\ ch.cpc = "recv"
    /\ ch' = [ch EXCEPT !.ppc = "range",
                        !.c = IF ch.fn = "AllCells" THEN @ + 1 ELSE @,
                        !.r = IF ch.fn = "AllRows" THEN @ + 1 ELSE @,
                        !.cpc = "body",
                        !.got = ch.val,
                        !.recv = Append(@, ch.val)]
    /\ UNCHANGED <<pc, kind, g, cells, last, it, run, fresh, runs, decisions, output,
                   yields>>

\* The receive of `range c` on the closed channel: the loop is over.
RangeEnd(next) ==
    /\ ch.fn # "none" /\ ch.cpc = "recv" /\ ch.closed /\ ch.ppc # "send"
    /\ ch' = [ch EXCEPT !.cpc = "done"]
    /\ yields' = Append(yields, [fn |-> ch.fn, recv |-> ch.recv])
    /\ pc' = next

\* NewGrid(rows, columns) up to the range in configureCells: fatal on a negative
\* dimension, else the grid is prepared and configureCells calls AllCells.
NewGridEnter(rows, columns) ==
    /\ pc = "start"
    /\ IF rows < 0 \/ columns < 0
         THEN /\ pc' = "fatal"
              /\ UNCHANGED <<kind, g, cells, ch>>
         ELSE LET p == prepareGrid([Rows |-> rows, Columns |-> columns,
                                    grid |-> <<>>])
              IN  /\ pc' = "configureCells"
                  /\ kind' = "Grid"
                  /\ g' = p.g
                  /\ cells' = p.heap
                  /\ ch' = MakeChan("AllCells")
    /\ last' = <<"NewGrid", rows, columns>>
    /\ UNCHANGED <<it, run, fresh, runs, decisions, output, yields>>

\* The loop body of configureCells on the cell received.
configureCellsBody ==
    /\ pc = "configureCells" /\ ch.cpc = "body"
    /\ LET cell == ch.got
           row == cells[cell].Row
           column == cells[cell].Column
       IN  cells' = [cells EXCEPT ![cell] =
                       [@ EXCEPT !.North = At(g, row - 1, column),
                                 !.South = At(g, row + 1, column),
                                 !.West  = At(g, row, column - 1),
                                 !.East  = At(g, row, column + 1)]]
    /\ ch' = [ch EXCEPT !.cpc = "recv"]
    /\ UNCHANGED <<pc, kind, g, last, it, run, fresh, runs, decisions, output,
                   yields>>

\* The range in configureCells ends; NewGrid returns the grid.
NewGridReturn ==
    /\ pc = "configureCells"
    /\ RangeEnd("ready")
    /\ UNCHANGED <<kind, g, cells, last, it, run, fresh, runs, decisions, output>>

\* BinaryTree(g) is called: its range over g.AllCells() starts.
BinaryTreeRangeCall ==
    /\ pc = "ready" /\ kind = "Grid"
    /\ Len(cells) <= MaxRangeCells /\ Len(yields) <= MaxRanges
    /\ pc' = "rangeAllCells"
    /\ ch' = MakeChan("AllCells")
    /\ last' = <<"BinaryTree">>
    /\ UNCHANGED <<kind, g, cells, it, run, fresh, runs, decisions, output, yields>>

\* The loop body of BinaryTree on the cell received.
BinaryTreeBody ==
    /\ pc = "rangeAllCells" /\ ch.cpc = "body"
    /\ LET cell == ch.got
           neighbors == BinaryTreeNeighbors(cells, cell)
       IN  IF Len(neighbors) > 0
             THEN \E i \in 1 .. Len(neighbors) :
                      cells' = Link(cells, cell, neighbors[i])
             ELSE cells' = cells
    /\ ch' = [ch EXCEPT !.cpc = "recv"]
    /\ UNCHANGED <<pc, kind, g, last, it, run, fresh, runs, decisions, output,
                   yields>>

\* The range in BinaryTree ends; BinaryTree returns.
BinaryTreeRangeReturn ==
    /\ pc = "rangeAllCells"
    /\ RangeEnd("ready")
    /\ UNCHANGED <<kind, g, cells, last, it, run, fresh, runs, decisions, output>>

\* Sidewinder(g) is called: its range over g.AllRows() starts.
SidewinderRangeCall ==
    /\ pc = "ready" /\ kind = "RectangleGrid"
    /\ Len(cells) <= MaxRangeCells /\ Len(yields) < MaxRanges
    /\ pc' = "rangeAllRows"
    /\ ch' = MakeChan("AllRows")
    /\ last' = <<"Sidewinder">>
    /\ UNCHANGED <<kind, g, cells, it, run, fresh, runs, decisions, output, yields>>

\* One link made in the loop body of Sidewinder on the row received: a cell of
\* the row is linked to its East or to its North neighbour.
SidewinderBodyLink ==
    /\ pc = "rangeAllRows" /\ ch.cpc = "body"
    /\ \E cell \in Range(SliceSeq(ch.got)) :
          \E target \in {cells[cell].East, cells[cell].North} \ {Nil} :
              /\ ~RectangleCell_Linked(cells, cell, AsRectangleCell(target))
              /\ cells' = RectangleCell_Link(cells, cell, AsRectangleCell(target))
    /\ UNCHANGED <<pc, kind, g, last, it, run, fresh, runs, decisions, output, ch,
                   yields>>

\* The loop body of Sidewinder is over: back to the receive.
SidewinderBodyEnd ==
    /\ pc = "rangeAllRows" /\ ch.cpc = "body"
    /\ ch' = [ch EXCEPT !.cpc = "recv"]
    /\ UNCHANGED <<pc, kind, g, cells, last, it, run, fresh, runs, decisions, output,
                   yields>>

\* The range in Sidewinder ends; Sidewinder returns.
SidewinderRangeReturn ==
    /\ pc = "rangeAllRows"
    /\ RangeEnd("ready")
    /\ UNCHANGED <<kind, g, cells, last, it, run, fresh, runs, decisions, output>>

\* ------------------ grids are built and ranged over through AllCells and AllRows

NewGridEnterAny ==
    \E rows \in Dims, columns \in DimsC :
        rows * columns <= MaxRangeCells /\ NewGridEnter(rows, columns)
NewRangeRectangleGrid ==
    \E rows \in Dims, columns \in DimsC :
        rows * columns <= MaxRangeCells /\ RectangleGrid_NewGridCall(rows, columns)

NextRange ==
    \/ NewGridEnterAny \/ configureCellsBody \/ NewGridReturn
    \/ NewRangeRectangleGrid
    \/ AllCellsProducer \/ AllRowsProducer \/ ChanHandoff
    \/ BinaryTreeRangeCall \/ BinaryTreeBody \/ BinaryTreeRangeReturn
    \/ SidewinderRangeCall \/ SidewinderBodyLink \/ SidewinderBodyEnd
    \/ SidewinderRangeReturn
SpecRange == Init /\ [][NextRange]_vars

\* ------------------------------------------------------------------ RandomCell

\* rand.Int63n(n): the values it can return, 0 .. n-1; it panics when n <= 0.
Int63n(n) == IF n <= 0 THEN {Panic} ELSE 0 .. n - 1

\* RandomCell: the results the call can have.  The two draws come first, rows
\* before columns; a draw that panics ends the call, else At answers.
RandomCell(G) ==
    LET rows == Int63n(G.Rows)
        columns == Int63n(G.Columns)
    IN  IF Panic \in rows \cup columns
          THEN {Panic}
          ELSE {At(G, row, column) : row \in rows, column \in columns}

RectangleGrid_RandomCell(G) ==
    LET rows == Int63n(G.rows)
        columns == Int63n(G.columns)
    IN  IF Panic \in rows \cup columns
          THEN {Panic}
          ELSE {RectangleGrid_At(G, row, column) : row \in rows, column \in columns}

\* g.RandomCell() is called (struct Grid).
RandomCellCall ==
    /\ pc = "ready" /\ kind = "Grid"
    /\ \E result \in RandomCell(g) :
          /\ last' = <<"RandomCell", result>>
          /\ pc' = IF result = Panic THEN "panic" ELSE "ready"
    /\ UNCHANGED <<kind, g, cells, it, run, fresh, runs, decisions, output, ch,
                   yields>>

\* g.RandomCell() is called (RectangleGrid).
RectangleGrid_RandomCellCall ==
    /\ pc = "ready" /\ kind = "RectangleGrid"
    /\ \E result \in RectangleGrid_RandomCell(g) :
          /\ last' = <<"RandomCell", result>>
          /\ pc' = IF result = Panic THEN "panic" ELSE "ready"
    /\ UNCHANGED <<kind, g, cells, it, run, fresh, runs, decisions, output, ch,
                   yields>>

\* ------------------------------------- a grid is built and asked for random cells

NextRandomCell ==
    \/ NewGridAny \/ NewRectangleGridAny
    \/ RandomCellCall \/ RectangleGrid_RandomCellCall
SpecRandomCell == Init /\ [][NextRandomCell]_vars

\* --------------------------------------------------- what the claims speak about

Addrs == DOMAIN cells
InGrid(row, column) ==
    0 <= row /\ row < RowsOf /\ 0 <= column /\ column < ColumnsOf
RowOf(heap, a) == IF kind = "RectangleGrid" THEN heap[a].base.row ELSE heap[a].Row
ColumnOf(heap, a) ==
    IF kind = "RectangleGrid" THEN heap[a].base.column ELSE heap[a].Column
\* The entries of the link sets, as pairs <<owner of the set, cell the key points to>>.
Entries(heap) ==
    IF kind = "RectangleGrid"
        THEN UNION {{<<a, k[2]>> : k \in heap[a].base.links} : a \in DOMAIN heap}
        ELSE UNION {{<<a, b>> : b \in heap[a].links} : a \in DOMAIN heap}
Adjacency(heap) ==
    [a \in DOMAIN heap |->
        <<heap[a].North, heap[a].South, heap[a].East, heap[a].West>>]
Coordinates(heap) == [a \in DOMAIN heap |-> <<RowOf(heap, a), ColumnOf(heap, a)>>]

RECURSIVE ReachFrom(_, _)
ReachFrom(S, edges) ==
    LET T == S \cup {e[2] : e \in {x \in edges : x[1] \in S}}
    IN  IF T = S THEN S ELSE ReachFrom(T, edges)
\* Every cell reaches every cell along the edges.
Connected(edges) == \A a \in Addrs : ReachFrom({a}, edges) = Addrs

\* C3: after Sidewinder on a grid with R >= 1 and C >= 1 the link graph is
\* connected, whatever the coin flips and member choices.  A link joins a and b
\* here as soon as either cell's link set has an entry for the other: the reading
\* most favourable to the code.
C3_SidewinderConnected ==
    (pc = "done" /\ kind = "RectangleGrid" /\ RowsOf >= 1 /\ ColumnsOf >= 1) =>
        Connected(Entries(cells) \cup {<<e[2], e[1]>> : e \in Entries(cells)})

\* C4: the runs of a row partition it: a new empty run follows each close that is
\* not the row's last, the member of each close is one of the cells appended since
\* the previous close, no cell is in two closed runs, and at the end of the row
\* every cell of the row is in exactly one.
C4_RunsPartitionRow ==
    (kind = "RectangleGrid" /\ pc \in {"SidewinderRow", "Sidewinder"}) =>
        /\ (last[1] = "close" /\ it.col < ColumnsOf) => run = <<>>
        /\ \A i \in DOMAIN runs : runs[i].member \in Range(runs[i].fresh)
        /\ \A i \in DOMAIN runs, j \in DOMAIN runs :
              i # j => Range(runs[i].cells) \cap Range(runs[j].cells) = {}
        /\ last[1] = "SidewinderRowEnd" =>
              \A c \in Range(SliceSeq(g.grid[it.row - 1])) :
                  Cardinality({i \in DOMAIN runs : c \in Range(runs[i].cells)}) = 1

\* C5: BinaryTree on a grid with R >= 1 and C >= 1 makes one decision per cell and
\* then returns (while it runs, a step is always possible and the decisions made
\* are the cells received, at most R*C); at its return every cell has at least one
\* link, except on the 1x1 grid, where there is no link.
C5_BinaryTreeEveryCellLinked ==
    (kind = "Grid" /\ RowsOf >= 1 /\ ColumnsOf >= 1) =>
        /\ pc = "BinaryTree" =>
              /\ decisions = it.col
              /\ decisions <= RowsOf * ColumnsOf
              /\ ENABLED (BinaryTreeCell \/ BinaryTreeReturn)
        /\ pc = "done" =>
              /\ decisions = RowsOf * ColumnsOf
              /\ RowsOf * ColumnsOf = 1 =>
                    \A a \in Addrs, b \in Addrs : ~Linked(cells, a, b)
              /\ RowsOf * ColumnsOf > 1 =>
                    \A a \in Addrs : \E b \in Addrs : Linked(cells, a, b)

\* BinaryTree has returned on a single-row grid of three cells: the top-right cell
\* is linked.
C5_Witness ==
    /\ pc = "done" /\ kind = "Grid" /\ RowsOf = 1 /\ ColumnsOf = 3
    /\ Linked(cells, At(g, 0, 2), At(g, 0, 1))

\* C6: after BinaryTree on a grid with R >= 1 and C >= 1 every cell is reachable
\* from every other along links, the links are symmetric and there are exactly
\* R*C - 1 of them.
C6_BinaryTreeSpanningTree ==
    (pc = "done" /\ kind = "Grid" /\ RowsOf >= 1 /\ ColumnsOf >= 1) =>
        LET linked == {e \in Addrs \X Addrs : Linked(cells, e[1], e[2])}
        IN  /\ Connected(linked)
            /\ \A e \in linked : <<e[2], e[1]>> \in linked
            /\ Cardinality({{e[1], e[2]} : e \in linked}) = RowsOf * ColumnsOf - 1

\* BinaryTree has returned on a 3x3 grid whose centre cell chose East.
C6_Witness ==
    /\ pc = "done" /\ kind = "Grid" /\ RowsOf = 3 /\ ColumnsOf = 3
    /\ Linked(cells, At(g, 1, 1), At(g, 1, 2))
    /\ ~Linked(cells, At(g, 1, 1), At(g, 0, 1))

\* C7: At(row, column) returns a cell iff 0 <= row < R and 0 <= column < C, and
\* that cell has these coordinates; for every other pair (also -1, R, C, and on
\* grids with R = 0 or C = 0) it returns nil, and it never indexes out of range.
C7_AtInRangeOrNil ==
    kind \in {"Grid", "RectangleGrid"} =>
        \A row \in -2 .. MaxRows + 2, column \in -2 .. MaxColumns + 2 :
            LET c == CellAt(row, column)
            IN  /\ c # Panic
                /\ c # Nil <=> InGrid(row, column)
                /\ c # Nil =>
                      /\ c \in Addrs
                      /\ RowOf(cells, c) = row
                      /\ ColumnOf(cells, c) = column

\* A grid with no rows and two columns: every lookup is nil.
C7_Witness ==
    /\ kind = "Grid" /\ g.Rows = 0 /\ g.Columns = 2
    /\ At(g, 0, 0) = Nil /\ At(g, 0, 1) = Nil /\ At(g, -1, 2) = Nil

\* C8: for all R, C >= 0 the grid NewGrid returns has reciprocal adjacency
\* (A.East = B iff B.West = A, A.North = B iff B.South = A), adjacency is absent
\* exactly at the grid's edges, and every link set is empty.
C8_FreshGridAdjacency ==
    (pc = "ready" /\ kind = "Grid") =>
        /\ Cardinality(Addrs) = g.Rows * g.Columns
        /\ \A a \in Addrs :
              /\ cells[a].links = {}
              /\ {cells[a].North, cells[a].South, cells[a].East, cells[a].West}
                    \subseteq Addrs \cup {Nil}
              /\ cells[a].North = Nil <=> cells[a].Row = 0
              /\ cells[a].South = Nil <=> cells[a].Row = g.Rows - 1
              /\ cells[a].West = Nil <=> cells[a].Column = 0
              /\ cells[a].East = Nil <=> cells[a].Column = g.Columns - 1
        /\ \A a \in Addrs, b \in Addrs :
              /\ cells[a].East = b <=> cells[b].West = a
              /\ cells[a].North = b <=> cells[b].South = a

\* A fresh 3x2 grid: the cell at (1, 0) has neighbours on three sides.
C8_Witness ==
    /\ pc = "ready" /\ kind = "Grid" /\ g.Rows = 3 /\ g.Columns = 2
    /\ cells[At(g, 1, 0)].West = Nil
    /\ cells[At(g, 1, 0)].East = At(g, 1, 1)
    /\ cells[At(g, 1, 0)].North = At(g, 0, 0)
    /\ cells[At(g, 1, 0)].South = At(g, 2, 0)

\* The link-set entries a generator step may add: BinaryTree joins the cell it
\* received with its North or East neighbour; Sidewinder joins the cell it received
\* with its East neighbour, or a member of run with that member's North neighbour.
BothWays(a, b) == IF b = Nil THEN {} ELSE {<<a, b>>, <<b, a>>}
MayAdd ==
    IF pc = "BinaryTree" /\ it.col < Len(AllCells(g))
        THEN LET c == AllCells(g)[it.col + 1]
             IN  BothWays(c, cells[c].North) \cup BothWays(c, cells[c].East)
    ELSE IF pc = "SidewinderRow" /\ it.col < SliceLen(g.grid[it.row - 1])
        THEN LET c == g.grid[it.row - 1][it.col]
             IN  BothWays(c, cells[c].East)
                    \cup UNION {BothWays(m, cells[m].North) : m \in Range(run) \cup {c}}
    ELSE {}

\* What a generator step does to the grid and the cells.
GeneratorStepFrame ==
    pc \in {"ready", "BinaryTree", "Sidewinder", "SidewinderRow"} =>
        /\ g' = g
        /\ kind' = kind
        /\ DOMAIN cells' = DOMAIN cells
        /\ Adjacency(cells') = Adjacency(cells)
        /\ Coordinates(cells') = Coordinates(cells)
        /\ Entries(cells) \subseteq Entries(cells')
        /\ (Entries(cells') \ Entries(cells)) \subseteq MayAdd

\* C9: BinaryTree and Sidewinder change only link sets: every step of theirs leaves
\* the grid value, the set of cells, every cell's coordinates and every North,
\* South, East and West unchanged, removes no link, and adds only links between
\* the cells named above.
C9_GeneratorsOnlyLink == [][GeneratorStepFrame]_vars

\* Sidewinder has returned on a 2x2 grid after linking (1, 1) to its North
\* neighbour and (1, 0) to its East neighbour.
C9_Witness ==
    /\ pc = "done" /\ kind = "RectangleGrid" /\ g.rows = 2 /\ g.columns = 2
    /\ <<RectangleGrid_At(g, 1, 1), RectangleGrid_At(g, 0, 1)>> \in Entries(cells)
    /\ <<RectangleGrid_At(g, 1, 0), RectangleGrid_At(g, 1, 1)>> \in Entries(cells)

\* The text cut at its newlines: the lines, each without its newline.
RECURSIVE SplitLines(_)
SplitLines(text) ==
    IF text = <<>> THEN <<>>
    ELSE IF \E i \in 1 .. Len(text) : text[i] = newline
        THEN LET n == CHOOSE i \in 1 .. Len(text) :
                          text[i] = newline /\ \A j \in 1 .. i - 1 : text[j] # newline
             IN  <<SubSeq(text, 1, n - 1)>> \o SplitLines(SubSeq(text, n + 1, Len(text)))
        ELSE <<text>>

\* C10: for a grid with R >= 1 and C >= 1 in any symmetric link state between
\* adjacent cells, toString(H, V) with H, V >= 1 yields R*(V+1)+1 lines; H horizontal
\* glyphs above every top-row cell and below every bottom-row cell; a vertical glyph
\* left of column 0 and right of column C-1 on every interior line; and the 1x1 grid
\* with H = 3, V = 1 is three lines with the four simple corners.
C10_ClosedOuterBorder ==
    (pc = "rendered" /\ g.Rows >= 1 /\ g.Columns >= 1) =>
        LET H == last[2]
            V == last[3]
            lines == SplitLines(output)
            bottom == g.Rows * (V + 1) + 1
        IN  /\ Len(lines) = bottom
            /\ \A l \in {1, bottom}, c \in 0 .. g.Columns - 1, i \in 1 .. H :
                  /\ Len(lines[l]) >= c * (H + 1) + 1 + i
                  /\ lines[l][c * (H + 1) + 1 + i] = horizontal
            /\ \A r \in 0 .. g.Rows - 1, i \in 1 .. V :
                  LET line == lines[r * (V + 1) + 1 + i]
                  IN  /\ Len(line) >= g.Columns * (H + 1) + 1
                      /\ line[1] = vertical
                      /\ line[g.Columns * (H + 1) + 1] = vertical
            /\ (g.Rows = 1 /\ g.Columns = 1 /\ H = 3 /\ V = 1) =>
                  /\ SubSeq(lines[1], 1, 5) =
                        <<cornerDownRight, horizontal, horizontal, horizontal,
                          cornerDownLeft>>
                  /\ lines[2][1] = vertical /\ lines[2][5] = vertical
                  /\ SubSeq(lines[2], 2, 4) = <<space, space, space>>
                  /\ SubSeq(lines[3], 1, 5) =
                        <<cornerUpRight, horizontal, horizontal, horizontal,
                          cornerUpLeft>>

\* The 2x2 grid with all four links present has been rendered with H = 3, V = 1.
C10_Witness ==
    /\ pc = "rendered" /\ g.Rows = 2 /\ g.Columns = 2
    /\ last = <<"toString", 3, 1>>
    /\ \A a \in Addrs, b \in Addrs : Adjacent(a, b) => Linked(cells, a, b)

\* C11: in every rendered grid, on each interior line of row r, the glyph
\* immediately left of cell (r, c) is the vertical glyph exactly when the cell is
\* not linked to its West neighbour, and a space exactly when it is, whatever
\* corner glyph stands at lattice point (r, c) - the down-tee included.
C11_WestWallIffNotLinked ==
    pc = "rendered" =>
        LET H == last[2]
            V == last[3]
            lines == SplitLines(output)
        IN  \A r \in 0 .. g.Rows - 1, c \in 0 .. g.Columns - 1, i \in 1 .. V :
                LET cell == At(g, r, c)
                    line == lines[r * (V + 1) + 1 + i]
                    glyph == line[c * (H + 1) + 1]
                IN  /\ Len(line) >= c * (H + 1) + 1
                    /\ glyph = IF Linked(cells, cell, cells[cell].West)
                                 THEN space ELSE vertical

\* What a range over AllCells (resp. AllRows) has to receive: cell (r, c) at
\* position r * Columns + c + 1 (resp. the row r, left to right, at position r + 1).
RowMajorCells ==
    [k \in 1 .. RowsOf * ColumnsOf |->
        CellAt((k - 1) \div ColumnsOf, (k - 1) % ColumnsOf)]
RowsInOrder ==
    [k \in 1 .. RowsOf |-> [c \in 0 .. ColumnsOf - 1 |-> CellAt(k - 1, c)]]
Expected(fn) == IF fn = "AllCells" THEN RowMajorCells ELSE RowsInOrder
IsPrefix(q, full) ==
    Len(q) <= Len(full) /\ \A k \in 1 .. Len(q) : q[k] = full[k]

\* C12: through the goroutine and the channel, AllCells hands over every cell and
\* AllRows every row of the grid exactly once, in row-major order, and then closes
\* the channel.  At every moment what the loop has received is a prefix of that
\* order, each cell received carries the coordinates of its position, and the
\* channel is closed only when everything has been received and the goroutine has
\* ended; until the loop is over some step of producer or consumer is possible,
\* so the range terminates; and every finished range - the one in configureCells
\* and each later one, whatever the loop bodies did to adjacency and links in
\* between - received the same full sequence.
C12_RangeYieldsRowMajorOnce ==
    /\ ch.fn # "none" =>
          /\ IsPrefix(ch.recv, Expected(ch.fn))
          /\ ch.fn = "AllCells" =>
                \A k \in 1 .. Len(ch.recv) :
                    /\ ch.recv[k] \in Addrs
                    /\ RowOf(cells, ch.recv[k]) = (k - 1) \div ColumnsOf
                    /\ ColumnOf(cells, ch.recv[k]) = (k - 1) % ColumnsOf
                    /\ \A j \in 1 .. Len(ch.recv) : ch.recv[j] = ch.recv[k] => j = k
          /\ ch.closed => ch.ppc = "ended" /\ ch.recv = Expected(ch.fn)
          /\ ch.cpc = "done" => ch.closed /\ ch.ppc = "ended"
          /\ ch.cpc # "done" => ENABLED NextRange
          /\ (ch.fn = "AllCells" /\ ch.cpc = "done") =>
                Range(ch.recv) = Addrs /\ Len(ch.recv) = Cardinality(Addrs)
    /\ \A n \in 1 .. Len(yields) : yields[n].recv = Expected(yields[n].fn)

\* A 2x2 grid was built through the range in configureCells, and two ranges of
\* BinaryTree over AllCells have finished on it, leaving links behind.
C12_Witness ==
    /\ pc = "ready" /\ kind = "Grid" /\ g.Rows = 2 /\ g.Columns = 2
    /\ Len(yields) = 3 /\ ch.cpc = "done"
    /\ yields[3].recv = <<1, 2, 3, 4>>
    /\ \E a \in Addrs : cells[a].links # {}

\* Every range that starts is eventually over.
C12_RangeTerminates == (ch.fn # "none") ~> (ch.fn # "none" /\ ch.cpc = "done")
SpecRangeFair == SpecRange /\ WF_vars(NextRange)

\* C13: on every grid NewGrid accepts, grids with zero rows or zero columns
\* included, RandomCell returns without a runtime failure, and on a grid with at
\* least one cell its result is a cell of that grid, never nil.
C13_RandomCellTotal ==
    (pc \in {"ready", "panic"} /\ last[1] = "RandomCell") =>
        /\ pc # "panic" /\ last[2] # Panic
        /\ RowsOf * ColumnsOf >= 1 =>
              /\ last[2] # Nil /\ last[2] \in Addrs
              /\ last[2] = CellAt(RowOf(cells, last[2]), ColumnOf(cells, last[2]))

\* ------------------------------------------------------------ the whole program

Next == NextCell \/ NextRectangleCell \/ NextGenerate \/ NextRender \/ NextRange
           \/ NextRandomCell
Spec == Init /\ [][Next]_vars

====
